---- MODULE Spec2Model ----
(***************************************************************************)
(* State-machine model of src/js/channel.js: the WAMP Channel, the public *)
(* WebRTC call controller and the internal WebRtcHandler that drives one  *)
(* call (subscription, local media, peer connection, signalling).         *)
(* JavaScript runs every callback to completion, so each handler is one   *)
(* atomic action.                                                         *)
(***************************************************************************)
EXTENDS Integers, Sequences, FiniteSets, TLC

\* ------------------------------------------------------------------ bounds
\* Number of events the relay and the peer connection deliver in one run:
\* inbound signalling messages, onaddstream and onicecandidate events.
MaxEvents == 3

\* Longest optional list of a constraint object handed to mergeConstraints.
MaxOptional == 1

\* --------------------------------------------------------------- constants
\* WebRtcState (channel.js 182-186); Undefined is the missing state_ field of
\* an instance whose constructor returned early.
Undefined == 0
INITIALIZED == 1
CALLING == 2
TERMINATED == 3

Null == "null"

VARIABLES
    config,                 \* webrtc_config handed to the WebRTC constructor
    conn,                   \* the connection ab.connect works on
    session_,               \* Channel.session_ (Null or "session")
    relay_sub,              \* the relay's view of the topic subscription
    relay_pub,              \* number of messages forwarded to session_.publish
    state_,                 \* WebRTC.state_
    webrtc_handler_,        \* WebRTC.webrtc_handler_ exists
    p2p_subscribed_,        \* WebRtcHandler.p2p_subscribed_
    p2p_connection_,        \* WebRtcHandler.p2p_connection_ (Null or "pc")
    do_call_,               \* WebRtcHandler.do_call_
    local_stream_,          \* WebRtcHandler.local_stream_ (Null or "stream")
    local_video_display_,   \* WebRtcHandler.local_video_display_ is an element
    remote_video_display_,  \* WebRtcHandler.remote_video_display_ is an element
    media,                  \* the getUserMedia request
    link,                   \* what was done to RTCPeerConnection objects
    pending,                \* createOffer/createAnswer success callbacks not yet run
    stream,                 \* what was done to the local stream and the displays
    published,              \* messages passed to p2p_channel_.publish, in order
    calls,                  \* invocations of onReady / onConnected / onTerminated
    reported,               \* webrtc_reportError calls, in order
    thrown,                 \* exceptions that escaped a handler
    events,                 \* number of relay and peer events delivered so far
    lastCall,               \* the public method called last
    offer_constraints_,     \* WebRtcHandler.offer_constraints_
    sdp_constraints_,       \* WebRtcHandler.sdp_constraints_
    merged                  \* the object mergeConstraints returned last (Null: none)

chanVars == <<conn, session_, relay_sub, relay_pub>>
apiVars == <<state_, webrtc_handler_>>
handlerVars == <<p2p_subscribed_, p2p_connection_, do_call_, local_stream_,
                 local_video_display_, remote_video_display_>>
envVars == <<media, link, pending, stream, events>>
obsVars == <<published, calls, reported, thrown>>
histVars == <<lastCall>>
constraintVars == <<offer_constraints_, sdp_constraints_, merged>>
vars == <<config, chanVars, apiVars, handlerVars, envVars, obsVars, histVars,
          constraintVars>>

\* ------------------------------------------------------------ configuration
\* webRtcDefaultConfig() with the fields a caller sets.  ice_servers is the
\* length of the list, p2p_channel whether it is non-null, p2p_topic the topic
\* string ("null" for a missing one), the displays whether the element exists,
\* the callbacks whether they are configured.  The remote display keeps its
\* default, an element of the page; the three lifecycle callbacks are
\* configured together or not at all.
Configs ==
    { c \in [ ice_servers : 0..1,
              p2p_channel : BOOLEAN,
              p2p_topic : {Null, "", "topic"},
              local_video_display : BOOLEAN,
              remote_video_display : {TRUE},
              onReady : BOOLEAN,
              onConnected : BOOLEAN,
              onTerminated : BOOLEAN,
              onError : BOOLEAN ] :
        c.onReady = c.onConnected /\ c.onConnected = c.onTerminated }

\* webrtc_reportError(config, message): the error policy.
webrtc_reportError(cfg, message) ==
    [via |-> IF cfg.onError THEN "onError" ELSE "alert", message |-> message]

\* The constructor without its early returns: it reports and goes on.
WebRTCNoReturn(cfg) ==
    [state_ |-> INITIALIZED, webrtc_handler_ |-> TRUE,
     reported |->
        (IF cfg.ice_servers = 0
         THEN <<webrtc_reportError(cfg, "No ICE servers specified.")>> ELSE <<>>)
        \o (IF ~cfg.p2p_channel \/ cfg.p2p_topic = Null \/ cfg.p2p_topic = ""
            THEN <<webrtc_reportError(cfg, "Invalid P2P specification.")>>
            ELSE <<>>)]

\* new WebRTC(webrtc_config): the fields the constructor leaves behind.
WebRTC(cfg) ==
    IF cfg.ice_servers = 0
    THEN [state_ |-> Undefined, webrtc_handler_ |-> FALSE,
          reported |-> <<webrtc_reportError(cfg, "No ICE servers specified.")>>]
    ELSE IF ~cfg.p2p_channel \/ cfg.p2p_topic = Null \/ cfg.p2p_topic = ""
    THEN [state_ |-> Undefined, webrtc_handler_ |-> FALSE,
          reported |-> <<webrtc_reportError(cfg, "Invalid P2P specification.")>>]
    ELSE [state_ |-> INITIALIZED, webrtc_handler_ |-> TRUE, reported |-> <<>>]

\* new WebRtcHandler(webrtc_config): the handler's fields after construction.
\* A constraint object is a record: mandatory is a map from names to values,
\* optional a list.  enable_audio keeps its default, true; sdp_constraints_
\* has no optional list.
WebRtcHandler ==
    [ p2p_subscribed_ |-> FALSE, p2p_connection_ |-> Null, do_call_ |-> FALSE,
      local_stream_ |-> Null, local_video_display_ |-> FALSE,
      remote_video_display_ |-> FALSE,
      sdp_constraints_ |->
          [mandatory |-> [name \in {"OfferToReceiveAudio", "OfferToReceiveVideo"}
                             |-> TRUE]],
      offer_constraints_ |-> [mandatory |-> <<>>, optional |-> <<>>] ]

\* The field of the handler each state variable holds after construction and
\* the environment around a WebRTC instance built from cfg; the constraint
\* objects are set apart.
InitSession(cfg) ==
    /\ config = cfg
    /\ conn = "closed"
    /\ session_ = Null
    /\ relay_sub = [live |-> FALSE, subscribes |-> 0, unsubscribes |-> 0]
    /\ relay_pub = 0
    /\ state_ = WebRTC(cfg).state_
    /\ webrtc_handler_ = WebRTC(cfg).webrtc_handler_
    /\ reported = WebRTC(cfg).reported
    /\ p2p_subscribed_ = WebRtcHandler.p2p_subscribed_
    /\ p2p_connection_ = WebRtcHandler.p2p_connection_
    /\ do_call_ = WebRtcHandler.do_call_
    /\ local_stream_ = WebRtcHandler.local_stream_
    /\ local_video_display_ = WebRtcHandler.local_video_display_
    /\ remote_video_display_ = WebRtcHandler.remote_video_display_
    /\ media = "idle"
    /\ link = [created |-> 0, closed |-> 0, addStream |-> 0, setRemote |-> 0,
               setLocal |-> 0, addIce |-> 0]
    /\ pending = [offer |-> 0, answer |-> 0]
    /\ stream = [local_attached |-> FALSE, remote_attached |-> FALSE, stops |-> 0]
    /\ published = <<>>
    /\ calls = [onReady |-> 0, onConnected |-> 0, onTerminated |-> 0]
    /\ thrown = 0
    /\ events = 0
    /\ lastCall = "new"

Init ==
    \E cfg \in Configs :
        /\ InitSession(cfg)
        /\ offer_constraints_ = WebRtcHandler.offer_constraints_
        /\ sdp_constraints_ = WebRtcHandler.sdp_constraints_
        /\ merged = Null

\* ------------------------------------------------------------------ Channel
\* Channel.isOpen()
isOpen == session_ # Null

\* The relay delivers topic events to the handler registered on the session
\* while that session is connected.
SubscriptionLive == relay_sub.live

\* Channel.open(): starts a connection unless a session is held.  One
\* ab.connect is outstanding at a time.
ChannelOpen ==
    /\ session_ = Null
    /\ conn = "closed"
    /\ conn' = "connecting"
    /\ UNCHANGED <<config, constraintVars, histVars, session_, relay_sub, relay_pub, apiVars,
                   handlerVars, envVars, obsVars>>

\* ab.connect's first callback: the session is established.
OnSessionOpen ==
    /\ conn = "connecting"
    /\ conn' = "open"
    /\ session_' = "session"
    /\ UNCHANGED <<config, constraintVars, histVars, relay_sub, relay_pub, apiVars, handlerVars,
                   envVars, obsVars>>

\* ab.connect's second callback: the connection failed or was lost; the
\* relay forgets the session's subscriptions.
OnSessionClosed ==
    /\ conn \in {"connecting", "open"}
    /\ conn' = "closed"
    /\ session_' = Null
    /\ relay_sub' = [relay_sub EXCEPT !.live = FALSE]
    /\ UNCHANGED <<config, constraintVars, histVars, relay_pub, apiVars, handlerVars, envVars,
                   obsVars>>

\* Channel.close()
ChannelClose ==
    /\ IF session_ = Null
       THEN UNCHANGED <<conn, session_, relay_sub>>
       ELSE /\ conn' = "closed"
            /\ session_' = Null
            /\ relay_sub' = [relay_sub EXCEPT !.live = FALSE]
    /\ UNCHANGED <<config, constraintVars, histVars, relay_pub, apiVars, handlerVars, envVars,
                   obsVars>>

\* Channel.subscribe(topic, event_handler)
ChannelSubscribe ==
    relay_sub' = IF session_ = Null THEN relay_sub
                 ELSE [relay_sub EXCEPT !.live = TRUE, !.subscribes = @ + 1]

\* Channel.unsubscribe(topic)
ChannelUnsubscribe ==
    relay_sub' = IF session_ = Null THEN relay_sub
                 ELSE [relay_sub EXCEPT !.live = FALSE, !.unsubscribes = @ + 1]

\* publish() without the check for an open session.
ChannelPublishUnchecked(data) ==
    relay_pub' = relay_pub + 1

\* Channel.publish(topic, data)
ChannelPublish(data) ==
    relay_pub' = IF session_ = Null THEN relay_pub ELSE relay_pub + 1

\* ------------------------------------------------------------ WebRtcHandler
\* WebRtcHandler.send(p2p_message)
Send(p2p_message) ==
    /\ published' = Append(published, p2p_message)
    /\ ChannelPublish(p2p_message)

\* WebRtcHandler.initialize(): resolves the displays, subscribes, requests
\* local media.  getUserMedia is null in a browser without the capability
\* (compatible.js), and the call then throws inside the try block.
Initialize ==
    /\ remote_video_display_' = config.remote_video_display
    /\ local_video_display_' = config.local_video_display
    /\ ChannelSubscribe
    /\ p2p_subscribed_' = TRUE
    /\ \E supported \in BOOLEAN :
          IF supported
          THEN media' = "pending" /\ UNCHANGED reported
          ELSE /\ media' = "unsupported"
               /\ reported' = Append(reported,
                     webrtc_reportError(config, "getUserMedia() is not supported."))

\* listen() that takes the caller's role.
HandlerListenAsCaller ==
    /\ do_call_' = TRUE
    /\ Initialize

\* WebRtcHandler.listen()
HandlerListen ==
    /\ do_call_' = FALSE
    /\ Initialize

\* WebRtcHandler.call()
HandlerCall ==
    /\ do_call_' = TRUE
    /\ Initialize

\* WebRtcHandler.doHangup()
DoHangup ==
    /\ p2p_connection_' = Null
    /\ link' = IF p2p_connection_ # Null
               THEN [link EXCEPT !.closed = @ + 1] ELSE link
    /\ p2p_subscribed_' = FALSE
    /\ IF p2p_subscribed_ THEN ChannelUnsubscribe ELSE UNCHANGED relay_sub
    /\ stream' = IF local_stream_ # Null
                 THEN [stream EXCEPT
                          !.local_attached = IF local_video_display_ THEN FALSE ELSE @,
                          !.stops = @ + 1]
                 ELSE stream
    /\ calls' = IF config.onTerminated
                THEN [calls EXCEPT !.onTerminated = @ + 1] ELSE calls

\* hangup() that tears down without sending the Bye.
HandlerHangupNoBye ==
    /\ DoHangup
    /\ UNCHANGED <<published, relay_pub>>

\* WebRtcHandler.hangup()
HandlerHangup ==
    /\ Send("bye")
    /\ DoHangup

\* A remote hangup that closes the link and unsubscribes but leaves the local
\* stream running.
OnRemoteHangupKeepsStream ==
    /\ p2p_connection_' = Null
    /\ link' = IF p2p_connection_ # Null
               THEN [link EXCEPT !.closed = @ + 1] ELSE link
    /\ p2p_subscribed_' = FALSE
    /\ IF p2p_subscribed_ THEN ChannelUnsubscribe ELSE UNCHANGED relay_sub
    /\ UNCHANGED stream
    /\ calls' = IF config.onTerminated
                THEN [calls EXCEPT !.onTerminated = @ + 1] ELSE calls

\* WebRtcHandler.onRemoteHangup()
OnRemoteHangup == DoHangup

\* createP2PConnection() whose failure path reports the error but leaves a
\* connection object in the field.
createP2PConnectionKeepsLink(ok) ==
    IF ok
    THEN [p2p_connection_ |-> "pc",
          link |-> [link EXCEPT !.created = @ + 1],
          reported |-> reported]
    ELSE [p2p_connection_ |-> "pc",
          link |-> link,
          reported |-> Append(reported,
              webrtc_reportError(config, "WebRTC P2P connection is not supported."))]

\* WebRtcHandler.createP2PConnection(): the connection field, the link record
\* and the error log it leaves; ok is whether new RTCPeerConnection succeeds.
createP2PConnection(ok) ==
    IF ok
    THEN [p2p_connection_ |-> "pc",
          link |-> [link EXCEPT !.created = @ + 1],
          reported |-> reported]
    ELSE [p2p_connection_ |-> Null,
          link |-> link,
          reported |-> Append(reported,
              webrtc_reportError(config, "WebRTC P2P connection is not supported."))]

\* merged.mandatory[name] = value: the map with name set to value.
SetMandatory(mandatory, name, value) ==
    [n \in DOMAIN mandatory \cup {name} |-> IF n = name THEN value ELSE mandatory[n]]

\* The for-in loop of mergeConstraints over the names left in todo.
RECURSIVE MergeMandatory(_, _, _)
MergeMandatory(mandatory, mandatory_2, todo) ==
    IF todo = {}
    THEN mandatory
    ELSE LET name == CHOOSE n \in todo : TRUE IN
         MergeMandatory(SetMandatory(mandatory, name, mandatory_2[name]),
                        mandatory_2, todo \ {name})

\* WebRtcHandler.mergeConstraints(constraints_1, constraints_2): the object
\* it returns.  merged is constraints_1 itself, not a copy, so the caller's
\* first object is the returned one; concat() builds a new list that is
\* dropped, the optional list stays as it is.
mergeConstraints(constraints_1, constraints_2) ==
    [constraints_1 EXCEPT
        !.mandatory = MergeMandatory(@, constraints_2.mandatory,
                                     DOMAIN constraints_2.mandatory)]

\* --------------------------------------------------------------- WebRTC API
\* listen() that refuses only a call in progress.
ListenUnlessCalling ==
    /\ lastCall' = "listen"
    /\ IF state_ = CALLING
       THEN UNCHANGED <<config, constraintVars, chanVars, apiVars, handlerVars, envVars, obsVars>>
       ELSE /\ state_' = CALLING
            /\ HandlerListen
            /\ UNCHANGED <<config, constraintVars, conn, session_, relay_pub, webrtc_handler_,
                           p2p_connection_, local_stream_, link, pending, stream,
                           events, published, calls, thrown>>

\* WebRTC.listen()
Listen ==
    /\ lastCall' = "listen"
    /\ IF state_ # INITIALIZED
       THEN UNCHANGED <<config, constraintVars, chanVars, apiVars, handlerVars, envVars, obsVars>>
       ELSE /\ state_' = CALLING
            /\ HandlerListen
            /\ UNCHANGED <<config, constraintVars, conn, session_, relay_pub, webrtc_handler_,
                           p2p_connection_, local_stream_, link, pending, stream,
                           events, published, calls, thrown>>

\* WebRTC.call()
Call ==
    /\ lastCall' = "call"
    /\ IF state_ # INITIALIZED
       THEN UNCHANGED <<config, constraintVars, chanVars, apiVars, handlerVars, envVars, obsVars>>
       ELSE /\ state_' = CALLING
            /\ HandlerCall
            /\ UNCHANGED <<config, constraintVars, conn, session_, relay_pub, webrtc_handler_,
                           p2p_connection_, local_stream_, link, pending, stream,
                           events, published, calls, thrown>>

\* hangup() that makes the instance reusable: the state goes back to
\* INITIALIZED.
HangupResets ==
    /\ lastCall' = "hangup"
    /\ IF state_ # CALLING
       THEN UNCHANGED <<config, constraintVars, chanVars, apiVars, handlerVars, envVars, obsVars>>
       ELSE /\ state_' = INITIALIZED
            /\ HandlerHangup
            /\ UNCHANGED <<config, constraintVars, conn, session_, webrtc_handler_, do_call_,
                           local_stream_, local_video_display_,
                           remote_video_display_, media, pending, events,
                           reported, thrown>>

\* hangup() that is refused once the session was torn down by the peer.
HangupUnlessTornDown ==
    /\ lastCall' = "hangup"
    /\ IF state_ # CALLING \/ ~p2p_subscribed_
       THEN UNCHANGED <<config, constraintVars, chanVars, apiVars, handlerVars, envVars, obsVars>>
       ELSE /\ state_' = TERMINATED
            /\ HandlerHangup
            /\ UNCHANGED <<config, constraintVars, conn, session_, webrtc_handler_, do_call_,
                           local_stream_, local_video_display_,
                           remote_video_display_, media, pending, events,
                           reported, thrown>>

\* WebRTC.hangup()
Hangup ==
    /\ lastCall' = "hangup"
    /\ IF state_ # CALLING
       THEN UNCHANGED <<config, constraintVars, chanVars, apiVars, handlerVars, envVars, obsVars>>
       ELSE /\ state_' = TERMINATED
            /\ HandlerHangup
            /\ UNCHANGED <<config, constraintVars, conn, session_, webrtc_handler_, do_call_,
                           local_stream_, local_video_display_,
                           remote_video_display_, media, pending, events,
                           reported, thrown>>

\* ------------------------------------------------- callbacks of the handler
\* WebRtcHandler.onUserMediaSuccess(stream)
OnUserMediaSuccess ==
    /\ media = "pending"
    /\ media' = "success"
    /\ local_stream_' = "stream"
    /\ \E ok \in BOOLEAN :
          LET c == createP2PConnection(ok) IN
          /\ p2p_connection_' = c.p2p_connection_
          /\ reported' = c.reported
          /\ IF c.p2p_connection_ = Null
             THEN /\ link' = c.link
                  /\ UNCHANGED <<pending, calls, offer_constraints_, merged>>
             ELSE /\ link' = [c.link EXCEPT !.addStream = @ + 1]
                  /\ IF do_call_
                     THEN /\ merged' = mergeConstraints(offer_constraints_,
                                                        sdp_constraints_)
                          /\ offer_constraints_' = merged'
                          /\ pending' = [pending EXCEPT !.offer = @ + 1]
                     ELSE UNCHANGED <<pending, offer_constraints_, merged>>
                  /\ calls' = IF config.onReady
                              THEN [calls EXCEPT !.onReady = @ + 1] ELSE calls
    /\ stream' = IF local_video_display_
                 THEN [stream EXCEPT !.local_attached = TRUE] ELSE stream
    /\ UNCHANGED <<config, sdp_constraints_, histVars, chanVars, apiVars,
                   p2p_subscribed_, do_call_, local_video_display_,
                   remote_video_display_, events, published, thrown>>

\* onUserMediaError() that also hangs up the session.
OnUserMediaErrorHangsUp ==
    /\ media = "pending"
    /\ media' = "error"
    /\ reported' = Append(reported,
          webrtc_reportError(config, "Failed to get access to local media."))
    /\ DoHangup
    /\ UNCHANGED <<config, constraintVars, histVars, conn, session_, relay_pub, apiVars, do_call_,
                   local_stream_, local_video_display_, remote_video_display_,
                   pending, events, published, thrown>>

\* onUserMediaError() that goes on to construct the peer connection.
OnUserMediaErrorCreatesLink ==
    /\ media = "pending"
    /\ media' = "error"
    /\ reported' = Append(reported,
          webrtc_reportError(config, "Failed to get access to local media."))
    /\ p2p_connection_' = "pc"
    /\ link' = [link EXCEPT !.created = @ + 1]
    /\ UNCHANGED <<config, constraintVars, histVars, chanVars, apiVars, p2p_subscribed_, do_call_,
                   local_stream_, local_video_display_, remote_video_display_,
                   pending, stream, events, published, calls, thrown>>

\* WebRtcHandler.onUserMediaError(error)
OnUserMediaError ==
    /\ media = "pending"
    /\ media' = "error"
    /\ reported' = Append(reported,
          webrtc_reportError(config, "Failed to get access to local media."))
    /\ UNCHANGED <<config, constraintVars, histVars, chanVars, apiVars, handlerVars, link, pending, stream,
                   events, published, calls, thrown>>

\* What the relay can deliver on the topic: the four message types, a JSON
\* object of another type, and text JSON.parse rejects.
MessageKinds == {"offer", "answer", "candidate", "bye", "other", "unparseable"}

\* WebRtcHandler.onChannelMessage(topic, message).  A property access on a
\* null p2p_connection_ and a JSON.parse failure throw out of the callback.
OnChannelMessage(m) ==
    /\ SubscriptionLive
    /\ events < MaxEvents
    /\ events' = events + 1
    /\ CASE m = "unparseable" ->
               /\ thrown' = thrown + 1
               /\ UNCHANGED <<handlerVars, relay_sub, link, pending, stream, calls>>
         [] m \in {"offer", "answer", "candidate"} /\ p2p_connection_ = Null ->
               /\ thrown' = thrown + 1
               /\ UNCHANGED <<handlerVars, relay_sub, link, pending, stream, calls>>
         [] m = "offer" /\ p2p_connection_ # Null ->
               /\ link' = [link EXCEPT !.setRemote = @ + 1]
               /\ pending' = [pending EXCEPT !.answer = @ + 1]
               /\ UNCHANGED <<handlerVars, relay_sub, stream, calls, thrown>>
         [] m = "answer" /\ p2p_connection_ # Null ->
               /\ link' = [link EXCEPT !.setRemote = @ + 1]
               /\ UNCHANGED <<handlerVars, relay_sub, pending, stream, calls, thrown>>
         [] m = "candidate" /\ p2p_connection_ # Null ->
               /\ link' = [link EXCEPT !.addIce = @ + 1]
               /\ UNCHANGED <<handlerVars, relay_sub, pending, stream, calls, thrown>>
         [] m = "bye" ->
               /\ OnRemoteHangup
               /\ UNCHANGED <<do_call_, local_stream_, local_video_display_,
                              remote_video_display_, pending, thrown>>
         [] m = "other" ->
               UNCHANGED <<handlerVars, relay_sub, link, pending, stream, calls,
                           thrown>>
    /\ UNCHANGED <<config, constraintVars, histVars, conn, session_, relay_pub, apiVars, media, published,
                   reported>>

\* setLocalAndSend() that sends the description without setting it as the
\* local description.
SetLocalAndSendUnset(kind) ==
    /\ pending[kind] > 0
    /\ pending' = [pending EXCEPT ![kind] = @ - 1]
    /\ IF p2p_connection_ = Null
       THEN /\ thrown' = thrown + 1
            /\ UNCHANGED <<link, published, relay_pub>>
       ELSE /\ Send(kind)
            /\ UNCHANGED <<link, thrown>>
    /\ UNCHANGED <<config, constraintVars, histVars, conn, session_, relay_sub, apiVars, handlerVars, media,
                   stream, events, calls, reported>>

\* WebRtcHandler.setLocalAndSend(session_description), the success callback of
\* createOffer ("offer") and createAnswer ("answer").
SetLocalAndSend(kind) ==
    /\ pending[kind] > 0
    /\ pending' = [pending EXCEPT ![kind] = @ - 1]
    /\ IF p2p_connection_ = Null
       THEN /\ thrown' = thrown + 1
            /\ UNCHANGED <<link, published, relay_pub>>
       ELSE /\ link' = [link EXCEPT !.setLocal = @ + 1]
            /\ Send(kind)
            /\ UNCHANGED thrown
    /\ UNCHANGED <<config, constraintVars, histVars, conn, session_, relay_sub, apiVars, handlerVars, media,
                   stream, events, calls, reported>>

\* WebRtcHandler.onIceCandidate(event); has is whether event.candidate is set.
OnIceCandidate(has) ==
    /\ p2p_connection_ # Null
    /\ link.setLocal > 0
    /\ events < MaxEvents
    /\ events' = events + 1
    /\ IF has THEN Send("candidate") ELSE UNCHANGED <<published, relay_pub>>
    /\ UNCHANGED <<config, constraintVars, histVars, conn, session_, relay_sub, apiVars, handlerVars, media,
                   link, pending, stream, calls, reported, thrown>>

\* WebRtcHandler.onRemoteStreamAdded(event)
OnRemoteStreamAdded ==
    /\ p2p_connection_ # Null
    /\ link.setRemote > 0
    /\ events < MaxEvents
    /\ events' = events + 1
    /\ stream' = IF remote_video_display_
                 THEN [stream EXCEPT !.remote_attached = TRUE] ELSE stream
    /\ calls' = IF config.onConnected
                THEN [calls EXCEPT !.onConnected = @ + 1] ELSE calls
    /\ UNCHANGED <<config, constraintVars, histVars, chanVars, apiVars, handlerVars, media, link, pending,
                   published, reported, thrown>>

\* -------------------------------------------------------------------- spec
Next ==
    \/ ChannelOpen
    \/ OnSessionOpen
    \/ OnSessionClosed
    \/ ChannelClose
    \/ Listen
    \/ Call
    \/ Hangup
    \/ OnUserMediaSuccess
    \/ OnUserMediaError
    \/ \E m \in MessageKinds : OnChannelMessage(m)
    \/ \E kind \in {"offer", "answer"} : SetLocalAndSend(kind)
    \/ \E has \in BOOLEAN : OnIceCandidate(has)
    \/ OnRemoteStreamAdded

Spec == Init /\ [][Next]_vars

\* ------------------------------------------------- mergeConstraints alone
\* Constraint objects over the names and options the handler uses, with
\* optional lists of at most MaxOptional entries.
ConstraintNames == {"OfferToReceiveAudio", "OfferToReceiveVideo"}
ConstraintOptions == {"DtlsSrtpKeyAgreement", "RtpDataChannels"}
MandatoryMaps == UNION {[D -> BOOLEAN] : D \in SUBSET ConstraintNames}
OptionalLists == UNION {[1..n -> ConstraintOptions] : n \in 0..MaxOptional}
Constraints == [mandatory : MandatoryMaps, optional : OptionalLists]

\* A configuration the constructor accepts.
CallConfig ==
    [ice_servers |-> 1, p2p_channel |-> TRUE, p2p_topic |-> "topic",
     local_video_display |-> FALSE, remote_video_display |-> TRUE,
     onReady |-> FALSE, onConnected |-> FALSE, onTerminated |-> FALSE,
     onError |-> FALSE]

\* A fresh handler whose two constraint objects are any two of Constraints.
MergeInit ==
    /\ InitSession(CallConfig)
    /\ offer_constraints_ \in Constraints
    /\ sdp_constraints_ \in Constraints
    /\ merged = Null

\* this.mergeConstraints(this.offer_constraints_, this.sdp_constraints_) as
\* doCall() calls it: the first object is updated in place and returned.
MergeConstraints ==
    /\ merged' = mergeConstraints(offer_constraints_, sdp_constraints_)
    /\ offer_constraints_' = merged'
    /\ UNCHANGED <<config, chanVars, apiVars, handlerVars, envVars, obsVars,
                   histVars, sdp_constraints_>>

MergeSpec == MergeInit /\ [][MergeConstraints]_vars

\* ------------------------------------------------------------------ claims
\* The handler was started: initialize() subscribed and asked for local media.
HandlerStarted ==
    /\ p2p_subscribed_'
    /\ media' \in {"pending", "unsupported"}
    /\ relay_sub'.subscribes = relay_sub.subscribes + (IF isOpen THEN 1 ELSE 0)

\* Nothing but the record of the last public call changed.
NoEffect ==
    UNCHANGED <<config, constraintVars, chanVars, apiVars, handlerVars, envVars, obsVars>>

\* C1: listen() and call() set the state to CALLING and start the handler if
\* and only if the prior state was INITIALIZED; in every other state
\* (CALLING, TERMINATED, never initialised) they change nothing, and no other
\* step ever enters CALLING.
C1_ListenCallIffInitialized ==
    [][ /\ (Listen \/ Call) =>
              IF state_ = INITIALIZED
              THEN state_' = CALLING /\ HandlerStarted
              ELSE NoEffect
        /\ (state_' = CALLING /\ state_ # CALLING) =>
              (state_ = INITIALIZED /\ (Listen \/ Call)) ]_vars

\* listen() was called on a terminated call and was refused.
C1_Witness ==
    /\ lastCall = "listen"
    /\ state_ = TERMINATED
    /\ media = "pending"

\* The teardown of doHangup() has run: no link, no subscription flag.
TornDown == p2p_connection_ = Null /\ ~p2p_subscribed_

\* C2: hangup() publishes exactly one Bye, sets the state to TERMINATED and
\* tears the session down if and only if the prior state was CALLING; in
\* every other state it publishes nothing and changes nothing.
C2_HangupIffCalling ==
    [][ /\ Hangup =>
              IF state_ = CALLING
              THEN /\ state_' = TERMINATED
                   /\ published' = Append(published, "bye")
                   /\ TornDown'
              ELSE NoEffect
        /\ (Len(published') > Len(published)
               /\ published'[Len(published')] = "bye") =>
              (Hangup /\ state_ = CALLING) ]_vars

\* hangup() ended a call in progress: one Bye is on the topic.
C2_Witness ==
    /\ lastCall = "hangup"
    /\ state_ = TERMINATED
    /\ Len(SelectSeq(published, LAMBDA m : m = "bye")) = 1
    /\ link.closed = 1

\* C3: the public state only moves INITIALIZED -> CALLING -> TERMINATED:
\* CALLING is entered from INITIALIZED by listen() or call(), TERMINATED only
\* from CALLING, and TERMINATED is never left.
C3_StateMonotonic ==
    [][ state_' # state_ =>
           \/ state_ = INITIALIZED /\ state_' = CALLING /\ (Listen \/ Call)
           \/ state_ = CALLING /\ state_' = TERMINATED ]_vars

\* A terminated call on which call() was tried again after inbound events.
C3_Witness ==
    /\ state_ = TERMINATED
    /\ lastCall = "call"
    /\ events > 0

\* The configurations the constructor rejects.
InvalidConfig(cfg) ==
    \/ cfg.ice_servers = 0
    \/ ~cfg.p2p_channel
    \/ cfg.p2p_topic = Null
    \/ cfg.p2p_topic = ""

\* C4: after construction from an invalid configuration exactly one error
\* was reported, no handler and no state exist, and whatever is called
\* afterwards nothing is subscribed, requested, published or called back.
C4_InvalidConfigInert ==
    InvalidConfig(config) =>
        /\ state_ = Undefined
        /\ ~webrtc_handler_
        /\ Len(reported) = 1
        /\ reported[1].via = (IF config.onError THEN "onError" ELSE "alert")
        /\ ~p2p_subscribed_
        /\ relay_sub.subscribes = 0
        /\ media = "idle"
        /\ published = <<>>
        /\ relay_pub = 0
        /\ calls = [onReady |-> 0, onConnected |-> 0, onTerminated |-> 0]
        /\ thrown = 0

\* An instance built without ICE servers and without a topic, on an open
\* channel, after call() was tried.
C4_Witness ==
    /\ config.ice_servers = 0
    /\ config.p2p_topic = Null
    /\ isOpen
    /\ lastCall = "call"

\* C5: onTerminated is invoked at most once in one call.
C5_OnTerminatedAtMostOnce == calls.onTerminated <= 1

\* C6: onConnected is invoked at most once in one call.
C6_OnConnectedAtMostOnce == calls.onConnected <= 1

\* C7 as stated: after a successful media acquisition onReady has been
\* invoked exactly once.
C7_OnReadyOncePerSuccess ==
    (media = "success" /\ config.onReady) => calls.onReady = 1

\* C7: after a successful media acquisition onReady has been invoked exactly
\* once if the peer connection was constructed and not at all if its
\* construction failed, in either role; it is not invoked without a
\* successful acquisition.
C7_OnReadyOncePerLink ==
    /\ (media = "success" /\ config.onReady) =>
           calls.onReady = (IF link.created = 1 THEN 1 ELSE 0)
    /\ (media # "success" \/ ~config.onReady) => calls.onReady = 0

\* A callee whose media and peer connection succeeded.
C7_Witness ==
    /\ media = "success"
    /\ ~do_call_
    /\ link.created = 1
    /\ calls.onReady = 1

\* What one teardown does, from the state before it.
TeardownEffects ==
    /\ p2p_connection_' = Null
    /\ link'.closed = link.closed + (IF p2p_connection_ # Null THEN 1 ELSE 0)
    /\ ~p2p_subscribed_'
    /\ ~relay_sub'.live
    /\ relay_sub'.unsubscribes =
          relay_sub.unsubscribes + (IF p2p_subscribed_ /\ isOpen THEN 1 ELSE 0)
    /\ stream'.stops = stream.stops + (IF local_stream_ # Null THEN 1 ELSE 0)
    /\ (local_stream_ # Null /\ local_video_display_) => ~stream'.local_attached
    /\ calls'.onTerminated =
          calls.onTerminated + (IF config.onTerminated THEN 1 ELSE 0)
    /\ UNCHANGED <<do_call_, local_stream_, media, pending>>

\* C8: a received Bye and a local hangup() while CALLING tear down alike
\* (link closed and cleared, unsubscribed, local stream detached and stopped,
\* onTerminated once); hangup() alone also publishes one Bye and sets the
\* state to TERMINATED.
C8_ByeTearsDownLikeHangup ==
    [][ /\ OnChannelMessage("bye") =>
              TeardownEffects /\ UNCHANGED <<published, relay_pub, state_>>
        /\ (Hangup /\ state_ = CALLING) =>
              /\ TeardownEffects
              /\ published' = Append(published, "bye")
              /\ state_' = TERMINATED ]_vars

\* A Bye tore down an established session: the link is closed and the stream
\* stopped while the public state is still CALLING.
C8_Witness ==
    /\ state_ = CALLING
    /\ link.closed = 1
    /\ stream.stops = 1
    /\ calls.onTerminated = 1
    /\ TornDown

\* C9: an inbound Bye leaves the public state as it was, and a hangup() after
\* the Bye's teardown, the state still being CALLING, is accepted: it
\* publishes a Bye and moves the state to TERMINATED.
C9_ByeKeepsPublicState ==
    [][ /\ OnChannelMessage("bye") => state_' = state_
        /\ (Hangup /\ state_ = CALLING /\ TornDown) =>
              /\ state_' = TERMINATED
              /\ published' = Append(published, "bye") ]_vars

\* hangup() was accepted after a Bye had torn the session down.
C9_Witness ==
    /\ state_ = TERMINATED
    /\ lastCall = "hangup"
    /\ calls.onTerminated = 2
    /\ published # <<>>

\* C10: an Offer, Answer or Candidate delivered while no peer connection
\* exists is dropped: nothing is thrown, no session state changes, nothing
\* is published or queued.
C10_EarlyMessageDropped ==
    [][ (p2p_connection_ = Null
            /\ \E m \in {"offer", "answer", "candidate"} : OnChannelMessage(m)) =>
           /\ thrown' = thrown
           /\ UNCHANGED <<handlerVars, link, pending, published, relay_pub,
                          reported, calls>> ]_vars

\* C11: an inbound message that cannot be parsed, or whose type is none of
\* offer/answer/candidate/bye, is ignored in every session state: nothing is
\* thrown, reported or published and no session state changes.
C11_BadMessageIgnored ==
    [][ (\E m \in {"other", "unparseable"} : OnChannelMessage(m)) =>
           /\ thrown' = thrown
           /\ UNCHANGED <<handlerVars, link, pending, stream, published,
                          relay_pub, relay_sub, reported, calls, state_>> ]_vars

\* A step in which a capability fails: getUserMedia is missing, local media
\* is refused, or the peer connection cannot be constructed.
CapabilityFailure ==
    \/ media = "idle" /\ media' = "unsupported"
    \/ media = "pending" /\ media' = "error"
    \/ media = "pending" /\ media' = "success" /\ link'.created = link.created

\* C12: every capability failure reports exactly one error, leaves no peer
\* connection, tears nothing down (the subscription flag stays as it is, nothing
\* is unsubscribed, closed or stopped, onTerminated is not invoked, the
\* public state stays what listen()/call() or an earlier hangup() made it)
\* and is never retried.
C12_CapabilityFailureReportedOnce ==
    [][ /\ CapabilityFailure =>
              /\ Len(reported') = Len(reported) + 1
              /\ p2p_connection_' = Null
              /\ state_' = (IF media = "idle" THEN CALLING ELSE state_)
              /\ IF media = "idle"
                 THEN p2p_subscribed_'
                 ELSE UNCHANGED <<p2p_subscribed_, relay_sub>>
              /\ relay_sub'.unsubscribes = relay_sub.unsubscribes
              /\ link'.closed = link.closed
              /\ stream'.stops = stream.stops
              /\ calls' = calls
              /\ published' = published
        /\ media \in {"unsupported", "error", "success"} => media' = media
        /\ link'.created <= 1 ]_vars

\* Local media was refused during a call: one error, the subscription kept.
C12_Witness ==
    /\ media = "error"
    /\ state_ = CALLING
    /\ p2p_subscribed_
    /\ relay_sub.live
    /\ Len(reported) = 1

\* C13: subscribe, unsubscribe and publish forward to the relay session
\* exactly when the channel holds a session, which it does from the connect
\* callback to the next close() or connection-closed callback; without a
\* session they forward nothing and throw nothing.
C13_ChannelForwardsOnlyWhenOpen ==
    [][ /\ isOpen <=> conn = "open"
        /\ isOpen' <=> conn' = "open"
        /\ published' # published =>
              /\ relay_pub' = relay_pub + (IF isOpen THEN 1 ELSE 0)
              /\ ~isOpen => thrown' = thrown
        /\ (p2p_subscribed_' /\ ~p2p_subscribed_) =>
              relay_sub'.subscribes =
                  relay_sub.subscribes + (IF isOpen THEN 1 ELSE 0)
        /\ (p2p_subscribed_ /\ ~p2p_subscribed_') =>
              relay_sub'.unsubscribes =
                  relay_sub.unsubscribes + (IF isOpen THEN 1 ELSE 0)
        /\ (\/ relay_pub' # relay_pub
            \/ relay_sub'.subscribes # relay_sub.subscribes
            \/ relay_sub'.unsubscribes # relay_sub.unsubscribes) => isOpen ]_vars

\* Two messages were published, one while the session was open and one
\* after it had closed.
C13_Witness ==
    /\ Len(published) = 2
    /\ relay_pub = 1
    /\ ~isOpen

\* C14: doHangup() run again on the state a previous doHangup() left adds
\* no effect: no further unsubscribe, link close, stream stop or
\* onTerminated.
C14_DoHangupIdempotent ==
    [][ (/\ Hangup
         /\ state_ = CALLING
         /\ TornDown
         /\ local_stream_ # Null => stream.stops >= 1) =>
           /\ relay_sub'.unsubscribes = relay_sub.unsubscribes
           /\ link'.closed = link.closed
           /\ stream'.stops = stream.stops
           /\ calls'.onTerminated = calls.onTerminated ]_vars

\* doHangup() has run since initialize(): the subscription flag, set by
\* initialize(), is cleared again.
TeardownRan == media # "idle" /\ ~p2p_subscribed_

\* C15: once teardown has run the session is inert: it holds no peer
\* connection (none is created afterwards) and no running or attached local
\* stream.
C15_InertAfterTeardown ==
    TeardownRan =>
        /\ p2p_connection_ = Null
        /\ link.created = link.closed
        /\ local_stream_ # Null => (stream.stops >= 1 /\ ~stream.local_attached)

\* C16: a createOffer/createAnswer success callback that runs after the
\* teardown closed the peer connection it was requested on throws nothing,
\* touches no peer connection and publishes nothing.
C16_LateDescriptionIgnored ==
    [][ (link.closed = 1 /\ \E kind \in {"offer", "answer"} : SetLocalAndSend(kind)) =>
           /\ thrown' = thrown
           /\ link' = link
           /\ published' = published ]_vars

\* C17: the subscription flag is set exactly when the handler's subscription
\* is live at the relay, and it is clear after a teardown.
C17_FlagIffSubscribed ==
    /\ p2p_subscribed_ <=> SubscriptionLive
    /\ TeardownRan => ~p2p_subscribed_

\* The peer connection could not be constructed.
PeerLinkFailed ==
    \E i \in DOMAIN reported :
        reported[i].message = "WebRTC P2P connection is not supported."

\* C18 as stated: at most one peer connection and one local stream are
\* active, and a media acquisition has created exactly one peer connection
\* if it succeeded and none otherwise.
C18_OneLinkPerAcquisition ==
    /\ link.created - link.closed \in {0, 1}
    /\ link.created = (IF media = "success" THEN 1 ELSE 0)

\* C18: at most one peer connection and one local stream are active at a
\* time; a successful media acquisition has created exactly one peer
\* connection unless its construction failed, in which case none; an
\* acquisition that failed or is still pending has created none.
C18_OneLinkPerAcquisitionUnlessFailed ==
    /\ link.created - link.closed \in {0, 1}
    /\ p2p_connection_ # Null => link.created - link.closed = 1
    /\ local_stream_ # Null <=> media = "success"
    /\ link.created =
          (IF media = "success" /\ ~PeerLinkFailed THEN 1 ELSE 0)

\* Media succeeded and one peer connection is active.
C18_Witness ==
    /\ media = "success"
    /\ p2p_connection_ # Null
    /\ link.created = 1
    /\ link.closed = 0

\* Number of Offers published so far.
OffersPublished == Len(SelectSeq(published, LAMBDA m : m = "offer"))

\* Number of Answers published so far.
AnswersPublished == Len(SelectSeq(published, LAMBDA m : m = "answer"))

\* The order of the caller's steps, as a condition on a state.
CallerOrder ==
    /\ (pending.offer + OffersPublished > 0) =>
           /\ do_call_
           /\ media = "success"
           /\ link.created = 1
           /\ link.addStream = 1
    /\ OffersPublished > 0 => link.setLocal >= 1
    /\ (do_call_ /\ link.created = 1 /\ link.closed = 0) =>
           pending.offer + OffersPublished = 1
    /\ pending.offer + OffersPublished <= 1
    /\ ~do_call_ => (pending.offer = 0 /\ OffersPublished = 0)

\* C19: on the caller path the peer connection is created and the stream
\* added before the offer is requested, and the offer, once produced on the
\* live connection, is set as the local description and published exactly
\* once; call() makes the handler the caller and listen() the callee, which
\* never requests or publishes an Offer.
C19_CallerPublishesOneOffer ==
    [][ /\ CallerOrder'
        /\ (Call /\ state_ = INITIALIZED) => do_call_'
        /\ (Listen /\ state_ = INITIALIZED) => ~do_call_'
        /\ state_ # INITIALIZED => do_call_' = do_call_
        /\ (SetLocalAndSend("offer") /\ p2p_connection_ # Null) =>
              /\ published' = Append(published, "offer")
              /\ link'.setLocal = link.setLocal + 1 ]_vars

\* The caller has published its Offer.
C19_Witness ==
    /\ do_call_
    /\ published = <<"offer">>
    /\ link.setLocal = 1
    /\ pending.offer = 0

\* C20: an Offer received on a live peer connection sets the remote
\* description and requests an answer, and the answer, once produced on the
\* live connection, is set as the local description and published exactly
\* once; an Answer received sets the remote description and nothing is
\* published or requested in reply.
C20_OfferAnsweredOnce ==
    [][ /\ (OnChannelMessage("offer") /\ p2p_connection_ # Null) =>
              /\ link'.setRemote = link.setRemote + 1
              /\ pending'.answer = pending.answer + 1
              /\ published' = published
        /\ (SetLocalAndSend("answer") /\ p2p_connection_ # Null) =>
              /\ link'.setLocal = link.setLocal + 1
              /\ published' = Append(published, "answer")
        /\ (OnChannelMessage("answer") /\ p2p_connection_ # Null) =>
              /\ link'.setRemote = link.setRemote + 1
              /\ UNCHANGED <<pending, published, relay_pub>>
        /\ AnswersPublished' + pending'.answer <= link'.setRemote ]_vars

\* The callee has answered an Offer.
C20_Witness ==
    /\ ~do_call_
    /\ published = <<"answer">>
    /\ link.setRemote = 1
    /\ link.setLocal = 1

\* What the merge is to return for the objects A and B it is called with: B's
\* mandatory entries, A's other mandatory entries, A's optional list.
MergeResultAsSpecified ==
    LET A == offer_constraints_
        B == sdp_constraints_
        R == merged'
    IN /\ \A name \in DOMAIN B.mandatory :
            name \in DOMAIN R.mandatory /\ R.mandatory[name] = B.mandatory[name]
       /\ \A name \in DOMAIN A.mandatory \ DOMAIN B.mandatory :
            name \in DOMAIN R.mandatory /\ R.mandatory[name] = A.mandatory[name]
       /\ DOMAIN R.mandatory = DOMAIN A.mandatory \cup DOMAIN B.mandatory
       /\ R.optional = A.optional

\* C21: mergeConstraints(A, B) returns B's mandatory entries over A's, with
\* A's optional list, and leaves the object A with the contents it had before
\* the call.
C21_MergeLeavesFirstArgument ==
    [][ MergeConstraints =>
          /\ MergeResultAsSpecified
          /\ offer_constraints_' = offer_constraints_ ]_vars

====
